---- MODULE Spec2Model ----
(***************************************************************************)
(* Model of the op-stack withdrawal helpers of viem:                       *)
(*   - getWithdrawalStatus / getWithdrawalStatusV2 / getWithdrawalStatusV3 *)
(*     (src/src/errors/base.ts)                                            *)
(*   - waitForNextL2Output                                                 *)
(*     (src/src/chains/opStack/actions/waitForNextL2Output.ts)             *)
(* Each async function is cut at its await points: one action per step     *)
(* between two awaits.  Contract reads are answered by the chain, which    *)
(* is a nondeterministic choice over small sets of outcomes.               *)
(***************************************************************************)
EXTENDS Integers, Sequences, FiniteSets, TLC

VARIABLES
  \* ---- getWithdrawalStatus (the running call) ----
  pc,            \* position of the call: start, awaitVersion, queries, done
  parameters,    \* [portalVersion: given/v, withdrawals: number of records in the receipt]
  reads,         \* contract reads issued so far, in issue order
  portalVersion, \* the major version the call dispatches on (0: not known yet)
  path,          \* "none", "v2" or "v3"
  world,         \* raw outcome of each of the four reads (on-chain state)
  pending,       \* indices of the queries of Promise.allSettled still in flight
  results,       \* the array Promise.allSettled fills
  order,         \* order in which the queries settled
  result,        \* what the call returned or threw
  calls,         \* number of calls made with these parameters
  firstResult,   \* what the first of them returned or threw
  versionWorld,  \* raw outcome of the portal version read (on-chain state)
  \* ---- waitForNextL2Output (one call) ----
  wpc,           \* position of the call and of the running tick
  l2BlockNumber, \* parameters.l2BlockNumber
  isLegacy,      \* version.major < 3
  initialWaitTime, \* seconds * 1000
  elapsed,       \* ms elapsed since poll was started (counted up to the initial wait)
  active,        \* poll's flag: cleared by unpoll
  promise,       \* the promise waitForNextL2Output returns
  ticks,         \* polling ticks begun
  settleCalls,   \* resolve/reject calls made
  wreads,        \* reads issued before polling, or by the running tick
  gameCount,     \* gameCount read by the running tick
  request,       \* arguments of the tick's findLatestGames call
  latestGames,   \* games the tick's findLatestGames returned
  seconds,       \* const { seconds }: the initial wait estimate, in seconds
  l2Output,      \* how the running tick's getL2Output settled
  raised,        \* the error a dispute-game read of the running tick raised
  \* ---- BaseError.walk (one call) ----
  walkpc,        \* position of the call: off, start, done
  chain,         \* the error and its causes: chain[i + 1] is chain[i].cause
  fn,            \* the predicate: whether given, and the values it is true for
  walked         \* what walk returned

callVars == <<calls, firstResult, versionWorld>>
statusVars == <<pc, parameters, reads, portalVersion, path, world, pending,
                results, order, result, callVars>>
waitVars == <<wpc, l2BlockNumber, isLegacy, initialWaitTime, elapsed, active,
              promise, ticks, settleCalls, wreads, gameCount, request,
              latestGames, seconds, l2Output, raised>>
walkVars == <<walkpc, chain, fn, walked>>
vars == <<statusVars, waitVars, walkVars>>

----------------------------------------------------------------------------
(* Bounds of the model *)
MaxWithdrawals == 1
MaxCalls == 2
MaxMajor == 3
MaxTimestamp == 1
MaxSeconds == 1
MaxTicks == 2
MaxGames == 2
MaxBatch == 2
MaxBlock == 2
MaxChain == 4

----------------------------------------------------------------------------
(* Errors and values *)

\* cause.data.args[0] of the getL2Output revert that means "not proposed yet"
NotProposedMessage ==
  "L2OutputOracle: cannot get output for a block that has not been proposed"

finalizedWithdrawalMessages ==
  { "OptimismPortal: dispute game has been blacklisted",
    "OptimismPortal: withdrawal has not been proven yet",
    "OptimismPortal: withdrawal timestamp less than dispute game creation timestamp",
    "OptimismPortal: proven withdrawal has not matured yet",
    "OptimismPortal: output proposal has not been finalized yet",
    "OptimismPortal: invalid game type",
    "OptimismPortal: dispute game created before respected game type was updated",
    "OptimismPortal: output proposal in air-gap",
    "OptimismPortal: withdrawal has already been finalized" }

\* revert reasons the code knows nothing about
UnknownPortalMessage == "OptimismPortal: paused"
UnknownOracleMessage == "L2OutputOracle: unknown"

\* An error object: its name, whether its cause is a
\* ContractFunctionRevertedError, cause.message, cause.data.args[0], and the
\* read that raised it (its identity).
Err(name, revert, reason, from) ==
  [name |-> name, revert |-> revert, message |-> reason,
   arg0 |-> IF revert THEN reason ELSE "", from |-> from]

NoError == Err("", FALSE, "", "")

RevertError(reason, from) ==
  Err("ContractFunctionExecutionError", TRUE, reason, from)
\* a ContractFunctionExecutionError whose cause is no revert (RPC failure)
CallError(from) ==
  Err("ContractFunctionExecutionError", FALSE, "request failed", from)
\* an error that is no ContractFunctionExecutionError
TransportError(from) == Err("HttpRequestError", FALSE, "request failed", from)

ReceiptContainsNoWithdrawalsError ==
  Err("ReceiptContainsNoWithdrawalsError", FALSE, "", "getWithdrawals")

\* JavaScript values, tagged: boolean (n = 1 for true), bigint, number,
\* object, error object.
Val(kind, n, e) == [kind |-> kind, n |-> n, e |-> e]
BoolVal(b) == Val("boolean", IF b THEN 1 ELSE 0, NoError)
BigIntVal(n) == Val("bigint", n, NoError)
NumVal(n) == Val("number", n, NoError)
ObjVal == Val("object", 0, NoError)
ErrVal(e) == Val("error", 0, e)
Undefined == Val("undefined", 0, NoError)

\* JavaScript truthiness of a value (or of any object carrying a kind)
Truthy(x) ==
  CASE x.kind = "boolean" -> x.n = 1
    [] x.kind \in {"bigint", "number"} -> x.n # 0
    [] x.kind \in {"undefined", "null"} -> FALSE
    [] OTHER -> TRUE

\* typeof x
TypeOf(x) == IF x.kind \in {"object", "error", "null"} THEN "object" ELSE x.kind

\* A value met while walking an error chain: an error object (kind "error",
\* told apart by its position id) or another value; hasCause is `'cause' in x`
ChainValue(kind, hasCause, id) ==
  [kind |-> kind, n |-> id, e |-> NoError, hasCause |-> hasCause]

NullValue == ChainValue("null", FALSE, 0)
NoValue == ChainValue("none", FALSE, 0)

\* walk is not called
WalkIdle ==
  /\ walkpc = "off"
  /\ chain = <<>>
  /\ fn = [given |-> FALSE, on |-> {}]
  /\ walked = NoValue

\* Raw outcome of a contract read
Ok(v) == [ok |-> TRUE, value |-> v, err |-> NoError]
Fail(e) == [ok |-> FALSE, value |-> Undefined, err |-> e]

\* PromiseSettledResult
Fulfilled(v) ==
  [kind |-> "object", status |-> "fulfilled", value |-> v, reason |-> NoError]
Rejected(e) ==
  [kind |-> "object", status |-> "rejected", value |-> Undefined, reason |-> e]
Unsettled ==
  [kind |-> "object", status |-> "pending", value |-> Undefined, reason |-> NoError]

\* What a call produced
NoResult == [kind |-> "none", status |-> "", err |-> NoError]
Return(s) == [kind |-> "return", status |-> s, err |-> NoError]
Throw(e) == [kind |-> "throw", status |-> "", err |-> e]

GetWithdrawalStatusReturnType ==
  { "waiting-to-prove", "ready-to-prove", "waiting-to-finalize",
    "ready-to-finalize", "finalized" }

----------------------------------------------------------------------------
(* The chain: the outcomes each read of getWithdrawalStatus can have *)

OutputOutcomes ==
  { Ok(ObjVal),
    Fail(RevertError(NotProposedMessage, "getL2Output")),
    Fail(RevertError(UnknownOracleMessage, "getL2Output")),
    Fail(CallError("getL2Output")) }

\* provenWithdrawals: the record is modelled by its timestamp
ProvenOutcomes ==
  { Ok(BigIntVal(t)) : t \in 0..MaxTimestamp }
    \cup { Fail(CallError("provenWithdrawals")) }

FinalizedOutcomes ==
  { Ok(BoolVal(b)) : b \in BOOLEAN } \cup { Fail(CallError("finalizedWithdrawals")) }

CheckWithdrawalOutcomes ==
  { Ok(Undefined) }
    \cup { Fail(RevertError(m, "checkWithdrawal")) :
             m \in finalizedWithdrawalMessages \cup {UnknownPortalMessage} }
    \cup { Fail(CallError("checkWithdrawal")),
           Fail(TransportError("checkWithdrawal")) }

TimeToFinalizeOutcomes ==
  { Ok(NumVal(s)) : s \in 0..MaxSeconds }
    \cup { Fail(CallError("getTimeToFinalize")) }

PortalVersionOutcomes ==
  { Ok(NumVal(m)) : m \in 1..MaxMajor } \cup { Fail(CallError("getPortalVersion")) }

Worlds(p) ==
  [ output : OutputOutcomes, proven : ProvenOutcomes,
    finalized : FinalizedOutcomes,
    fourth : IF p = "v3" THEN CheckWithdrawalOutcomes ELSE TimeToFinalizeOutcomes ]

\* a read that has not settled
NoOutcome == Fail(NoError)

NoWorld ==
  [output |-> Fail(NoError), proven |-> Fail(NoError),
   finalized |-> Fail(NoError), fourth |-> Fail(NoError)]

----------------------------------------------------------------------------
(* getWithdrawalStatus, getWithdrawalStatusV3, getWithdrawalStatusV2 *)

\* a plain read settles as its raw outcome
Settle(raw) == IF raw.ok THEN Fulfilled(raw.value) ELSE Rejected(raw.err)

\* (mutant) the catch handler without its allow-list test
checkWithdrawalSettled_noAllowList(raw) ==
  IF raw.ok THEN Fulfilled(BoolVal(TRUE))
  ELSE IF raw.err.name # "ContractFunctionExecutionError" THEN Rejected(raw.err)
  ELSE Fulfilled(ErrVal(raw.err))

\* readContract(checkWithdrawal).then(() => true).catch(...)
checkWithdrawalSettled(raw) ==
  IF raw.ok THEN Fulfilled(BoolVal(TRUE))
  ELSE IF raw.err.name # "ContractFunctionExecutionError" THEN Rejected(raw.err)
  ELSE IF raw.err.message \notin finalizedWithdrawalMessages THEN Rejected(raw.err)
  ELSE Fulfilled(ErrVal(raw.err))

\* the settled result of query i (1 output, 2 proven, 3 finalized, 4 fourth)
QuerySettled(p, w, i) ==
  CASE i = 1 -> Settle(w.output)
    [] i = 2 -> Settle(w.proven)
    [] i = 3 -> Settle(w.finalized)
    [] OTHER -> IF p = "v3" THEN checkWithdrawalSettled(w.fourth)
                ELSE Settle(w.fourth)

\* names of the four reads, in the order the array literal starts them
QueryReads(p) ==
  << "getL2Output", "provenWithdrawals", "finalizedWithdrawals",
     IF p = "v3" THEN "checkWithdrawal" ELSE "getTimeToFinalize" >>

\* (mutant) results collected in the order the promises settle
allSettledStore_completionOrder(res, i, r) ==
  LET free == { k \in 1..4 : res[k].status = "pending" }
      slot == CHOOSE k \in free : \A j \in free : k <= j
  IN  [res EXCEPT ![slot] = r]

\* Promise.allSettled: the result of the i-th promise goes to the i-th slot,
\* whenever it settles
allSettledStore(res, i, r) == [res EXCEPT ![i] = r]

\* (mutant) the instanceof test applied to the error instead of its cause
IsNotProposed_onError(error) ==
  error.name = "ContractFunctionRevertedError" /\ error.arg0 = NotProposedMessage

\* error.cause instanceof ContractFunctionRevertedError &&
\* error.cause.data?.args?.[0] === 'L2OutputOracle: cannot get output ...'
IsNotProposed(error) == error.revert /\ error.arg0 = NotProposedMessage

\* (mutant) readyToFinalize.value === true
readyToFinalizeTest_valueIsTrue(readyToFinalize) ==
  readyToFinalize.value = BoolVal(TRUE)

\* the condition of `readyToFinalize ? ... : ...`: the settled result itself
readyToFinalizeTest(readyToFinalize) == Truthy(readyToFinalize)

\* (mutant) seconds >= 0
secondsTest_orEqual(s) == s >= 0

\* the condition of `seconds > 0 ? ... : ...`
secondsTest(s) == s > 0

\* (mutant) the `if (finalized) return 'finalized'` step left out
getWithdrawalStatusV3_classify_noFinalized(r) ==
  IF r[1].status = "rejected"
    THEN IF IsNotProposed(r[1].reason) THEN Return("waiting-to-prove")
         ELSE Throw(r[1].reason)
  ELSE IF r[2].status = "rejected" THEN Throw(r[2].reason)
  ELSE IF r[3].status = "rejected" THEN Throw(r[3].reason)
  ELSE IF r[4].status = "rejected" THEN Throw(r[4].reason)
  ELSE IF ~Truthy(r[2].value) THEN Return("ready-to-prove")
  ELSE IF readyToFinalizeTest(r[4]) THEN Return("ready-to-finalize")
  ELSE Return("waiting-to-finalize")

\* the classification after the await, v3
getWithdrawalStatusV3_classify(r) ==
  LET outputResult == r[1]
      proveResult == r[2]
      finalizedResult == r[3]
      readyToFinalize == r[4]
  IN  IF outputResult.status = "rejected"
        THEN IF IsNotProposed(outputResult.reason)
               THEN Return("waiting-to-prove")
               ELSE Throw(outputResult.reason)
      ELSE IF proveResult.status = "rejected" THEN Throw(proveResult.reason)
      ELSE IF finalizedResult.status = "rejected" THEN Throw(finalizedResult.reason)
      ELSE IF readyToFinalize.status = "rejected" THEN Throw(readyToFinalize.reason)
      ELSE IF ~Truthy(proveResult.value) THEN Return("ready-to-prove")
      ELSE IF Truthy(finalizedResult.value) THEN Return("finalized")
      ELSE IF readyToFinalizeTest(readyToFinalize) THEN Return("ready-to-finalize")
      ELSE Return("waiting-to-finalize")

\* (mutant) `if (finalized)` tested before `if (!proveTimestamp)`
getWithdrawalStatusV2_classify_finalizedFirst(r) ==
  IF r[1].status = "rejected"
    THEN IF IsNotProposed(r[1].reason) THEN Return("waiting-to-prove")
         ELSE Throw(r[1].reason)
  ELSE IF r[2].status = "rejected" THEN Throw(r[2].reason)
  ELSE IF r[3].status = "rejected" THEN Throw(r[3].reason)
  ELSE IF r[4].status = "rejected" THEN Throw(r[4].reason)
  ELSE IF Truthy(r[3].value) THEN Return("finalized")
  ELSE IF ~Truthy(r[2].value) THEN Return("ready-to-prove")
  ELSE IF secondsTest(r[4].value.n) THEN Return("waiting-to-finalize")
  ELSE Return("ready-to-finalize")

\* (mutant) the finalized read's rejection thrown before the proven read's
getWithdrawalStatusV2_classify_finalizedThrowFirst(r) ==
  IF r[1].status = "rejected"
    THEN IF IsNotProposed(r[1].reason) THEN Return("waiting-to-prove")
         ELSE Throw(r[1].reason)
  ELSE IF r[3].status = "rejected" THEN Throw(r[3].reason)
  ELSE IF r[2].status = "rejected" THEN Throw(r[2].reason)
  ELSE IF r[4].status = "rejected" THEN Throw(r[4].reason)
  ELSE IF ~Truthy(r[2].value) THEN Return("ready-to-prove")
  ELSE IF Truthy(r[3].value) THEN Return("finalized")
  ELSE IF secondsTest(r[4].value.n) THEN Return("waiting-to-finalize")
  ELSE Return("ready-to-finalize")

\* the classification after the await, v2
getWithdrawalStatusV2_classify(r) ==
  LET outputResult == r[1]
      proveResult == r[2]
      finalizedResult == r[3]
      timeToFinalizeResult == r[4]
  IN  IF outputResult.status = "rejected"
        THEN IF IsNotProposed(outputResult.reason)
               THEN Return("waiting-to-prove")
               ELSE Throw(outputResult.reason)
      ELSE IF proveResult.status = "rejected" THEN Throw(proveResult.reason)
      ELSE IF finalizedResult.status = "rejected" THEN Throw(finalizedResult.reason)
      ELSE IF timeToFinalizeResult.status = "rejected"
        THEN Throw(timeToFinalizeResult.reason)
      ELSE IF ~Truthy(proveResult.value) THEN Return("ready-to-prove")
      ELSE IF Truthy(finalizedResult.value) THEN Return("finalized")
      ELSE IF secondsTest(timeToFinalizeResult.value.n)
        THEN Return("waiting-to-finalize")
      ELSE Return("ready-to-finalize")

Classify(p, r) ==
  IF p = "v2" THEN getWithdrawalStatusV2_classify(r)
  ELSE getWithdrawalStatusV3_classify(r)

\* portalVersion === 2 ? V2 : V3
SelectPath(major) == IF major = 2 THEN "v2" ELSE "v3"

\* The on-chain state the four reads see: any, and the same one in every
\* later call
ChainState(p) == IF world = NoWorld THEN Worlds(p) ELSE {world}

\* What the portal version read answers: any outcome, and the same one in
\* every later call
VersionAnswers ==
  IF versionWorld = NoOutcome THEN PortalVersionOutcomes ELSE {versionWorld}

\* Entry of getWithdrawalStatusV2 / V3 up to the await: the receipt check,
\* then the four reads are started.
EnterPath(major) ==
  LET p == SelectPath(major)
  IN  /\ portalVersion' = major
      /\ path' = p
      /\ IF parameters.withdrawals = 0
           THEN /\ result' = Throw(ReceiptContainsNoWithdrawalsError)
                /\ pc' = "done"
                /\ UNCHANGED <<reads, world, pending>>
           ELSE /\ reads' = reads \o QueryReads(p)
                /\ world' \in ChainState(p)
                /\ pending' = 1..4
                /\ pc' = "queries"
                /\ UNCHANGED result
      /\ UNCHANGED <<parameters, results, order>>

\* getWithdrawalStatus is called: parameters.portalVersion ?? await getPortalVersion
Call ==
  /\ pc = "start"
  /\ IF parameters.portalVersion.given
       THEN EnterPath(parameters.portalVersion.v)
       ELSE /\ reads' = Append(reads, "getPortalVersion")
            /\ pc' = "awaitVersion"
            /\ UNCHANGED <<parameters, portalVersion, path, world, pending,
                           results, order, result>>
  /\ UNCHANGED callVars
  /\ UNCHANGED waitVars
  /\ UNCHANGED walkVars

\* the version read settles
VersionSettled ==
  /\ pc = "awaitVersion"
  /\ \E v \in VersionAnswers :
       /\ versionWorld' = v
       /\ IF v.ok
            THEN EnterPath(v.value.n)
            ELSE /\ result' = Throw(v.err)
                 /\ pc' = "done"
                 /\ UNCHANGED <<parameters, reads, portalVersion, path, world,
                                pending, results, order>>
  /\ UNCHANGED <<calls, firstResult>>
  /\ UNCHANGED waitVars
  /\ UNCHANGED walkVars

\* one of the four queries settles
QuerySettles ==
  /\ pc = "queries"
  /\ \E i \in pending :
       /\ results' = allSettledStore(results, i, QuerySettled(path, world, i))
       /\ pending' = pending \ {i}
       /\ order' = Append(order, i)
  /\ UNCHANGED <<pc, parameters, reads, portalVersion, path, world, result>>
  /\ UNCHANGED callVars
  /\ UNCHANGED waitVars
  /\ UNCHANGED walkVars

\* (mutant) Promise.all: done as soon as one promise has rejected
allSettledDone_failFast(res) ==
  \/ \A i \in 1..4 : res[i].status # "pending"
  \/ \E i \in 1..4 : res[i].status = "rejected"

\* Promise.allSettled resolves once every promise has settled
allSettledDone(res) == \A i \in 1..4 : res[i].status # "pending"

\* the await of Promise.allSettled returns; the rest of the function runs
Classified ==
  /\ pc = "queries"
  /\ allSettledDone(results)
  /\ result' = Classify(path, results)
  /\ pc' = "done"
  /\ UNCHANGED <<parameters, reads, portalVersion, path, world, pending,
                 results, order>>
  /\ UNCHANGED callVars
  /\ UNCHANGED waitVars
  /\ UNCHANGED walkVars

\* the caller calls getWithdrawalStatus again, with the same parameters
CallAgain ==
  /\ pc = "done"
  /\ calls < MaxCalls
  /\ calls' = calls + 1
  /\ firstResult' = IF calls = 1 THEN result ELSE firstResult
  /\ pc' = "start"
  /\ reads' = <<>>
  /\ portalVersion' = 0
  /\ path' = "none"
  /\ pending' = {}
  /\ results' = [i \in 1..4 |-> Unsettled]
  /\ order' = <<>>
  /\ result' = NoResult
  /\ UNCHANGED <<parameters, world, versionWorld>>
  /\ UNCHANGED waitVars
  /\ UNCHANGED walkVars

PortalVersionParameters ==
  { [given |-> FALSE, v |-> 0] } \cup { [given |-> TRUE, v |-> n] : n \in {2, 3} }

NoRequest == [start |-> 0, count |-> 0]

WaitIdle ==
  /\ wpc = "off"
  /\ l2BlockNumber = 0
  /\ isLegacy = FALSE
  /\ initialWaitTime = 0
  /\ elapsed = 0
  /\ active = FALSE
  /\ promise = Unsettled
  /\ ticks = 0
  /\ settleCalls = 0
  /\ wreads = <<>>
  /\ gameCount = 0
  /\ request = NoRequest
  /\ latestGames = <<>>
  /\ seconds = 0
  /\ l2Output = NoOutcome
  /\ raised = NoError

InitStatus ==
  /\ pc = "start"
  /\ parameters \in [portalVersion : PortalVersionParameters,
                     withdrawals : 0..MaxWithdrawals]
  /\ reads = <<>>
  /\ portalVersion = 0
  /\ path = "none"
  /\ world = NoWorld
  /\ pending = {}
  /\ results = [i \in 1..4 |-> Unsettled]
  /\ order = <<>>
  /\ result = NoResult
  /\ calls = 1
  /\ firstResult = NoResult
  /\ versionWorld = NoOutcome
  /\ WaitIdle
  /\ WalkIdle

NextStatus ==
  Call \/ VersionSettled \/ QuerySettles \/ Classified \/ CallAgain

SpecStatus == InitStatus /\ [][NextStatus]_vars

----------------------------------------------------------------------------
(* getWithdrawalStatus, the two-query implementation *)

\* new Error('add me back')
AddMeBackError == Err("Error", FALSE, "add me back", "getWithdrawalStatus")

\* new Error(`Unknown revert message ... from checkWithdrawal`)
UnknownRevertMessageError ==
  Err("Error", FALSE, "Unknown revert message", "getWithdrawalStatus")

\* (mutant) 'not been proven yet' answered with 'waiting-to-prove'
revertMessageSwitch_waitingToProve(revertMessage) ==
  CASE revertMessage = "OptimismPortal: withdrawal has not been proven yet"
         -> Return("waiting-to-prove")
    [] revertMessage = "OptimismPortal: withdrawal has already been finalized"
         -> Return("finalized")
    [] revertMessage \in finalizedWithdrawalMessages
         -> Return("waiting-to-finalize")
    [] OTHER -> Throw(UnknownRevertMessageError)

\* switch (revertMessage)
revertMessageSwitch(revertMessage) ==
  CASE revertMessage = "OptimismPortal: withdrawal has not been proven yet"
         -> Return("ready-to-prove")
    [] revertMessage = "OptimismPortal: withdrawal has already been finalized"
         -> Return("finalized")
    [] revertMessage \in
         { "OptimismPortal: output proposal has not been finalized yet",
           "OptimismPortal: proven withdrawal has not matured yet",
           "OptimismPortal: invalid game type",
           "OptimismPortal: output proposal in air-gap",
           "OptimismPortal: dispute game has been blacklisted",
           "OptimismPortal: withdrawal timestamp less than dispute game creation timestamp",
           "OptimismPortal: dispute game created before respected game type was updated" }
         -> Return("waiting-to-finalize")
    [] OTHER -> Throw(UnknownRevertMessageError)

\* (mutant) the function without its allow-list test
getWithdrawalStatus_classify_noAllowList(portalVersionResult, checkWithdrawalResult) ==
  IF portalVersionResult.status = "rejected"
    THEN Throw(portalVersionResult.reason)
  ELSE IF portalVersionResult.value.n = 2 THEN Throw(AddMeBackError)
  ELSE IF checkWithdrawalResult.status # "rejected"
    THEN Return("ready-to-finalize")
  ELSE IF ~checkWithdrawalResult.reason.revert
    THEN Throw(checkWithdrawalResult.reason)
  ELSE revertMessageSwitch(checkWithdrawalResult.reason.arg0)

\* the function after `await Promise.allSettled([...])`
getWithdrawalStatus_classify(portalVersionResult, checkWithdrawalResult) ==
  IF portalVersionResult.status = "rejected"
    THEN Throw(portalVersionResult.reason)
  ELSE IF portalVersionResult.value.n = 2 THEN Throw(AddMeBackError)
  ELSE IF checkWithdrawalResult.status # "rejected"
    THEN Return("ready-to-finalize")
  ELSE IF ~checkWithdrawalResult.reason.revert
    THEN Throw(checkWithdrawalResult.reason)
  ELSE IF checkWithdrawalResult.reason.arg0 \notin finalizedWithdrawalMessages
    THEN Throw(checkWithdrawalResult.reason)
  ELSE revertMessageSwitch(checkWithdrawalResult.reason.arg0)

\* the on-chain state the two-query implementation runs against: the one of
\* the v3 path, of which it reads checkWithdrawal only
CheckWithdrawalWorlds == Worlds("v3")

\* the call up to its first await: the receipt check, then
\* `await getPortalVersion(client, parameters)`, whatever parameters.portalVersion
TwoQueryCall ==
  /\ pc = "start"
  /\ IF parameters.withdrawals = 0
       THEN /\ result' = Throw(ReceiptContainsNoWithdrawalsError)
            /\ pc' = "done"
            /\ UNCHANGED reads
       ELSE /\ reads' = Append(reads, "getPortalVersion")
            /\ pc' = "awaitVersion"
            /\ UNCHANGED result
  /\ UNCHANGED <<parameters, portalVersion, path, world, pending, results, order>>
  /\ UNCHANGED callVars
  /\ UNCHANGED waitVars
  /\ UNCHANGED walkVars

\* the awaited version read settles: a rejection is thrown at once; otherwise
\* checkWithdrawal is read and Promise.allSettled([version, read]) awaited
TwoQueryVersionSettled ==
  /\ pc = "awaitVersion"
  /\ \E v \in PortalVersionOutcomes :
       IF v.ok
         THEN /\ portalVersion' = v.value.n
              /\ reads' = Append(reads, "checkWithdrawal")
              /\ world' \in CheckWithdrawalWorlds
              /\ results' = allSettledStore(results, 1, Fulfilled(v.value))
              /\ order' = <<1>>
              /\ pending' = {2}
              /\ pc' = "queries"
              /\ UNCHANGED result
         ELSE /\ result' = Throw(v.err)
              /\ pc' = "done"
              /\ UNCHANGED <<reads, portalVersion, world, pending, results, order>>
  /\ UNCHANGED <<parameters, path>>
  /\ UNCHANGED callVars
  /\ UNCHANGED waitVars
  /\ UNCHANGED walkVars

\* checkWithdrawal settles, Promise.allSettled resolves, the function ends
TwoQueryCheckSettled ==
  /\ pc = "queries"
  /\ pending = {2}
  /\ results' = allSettledStore(results, 2, Settle(world.fourth))
  /\ order' = Append(order, 2)
  /\ pending' = {}
  /\ result' = getWithdrawalStatus_classify(results'[1], results'[2])
  /\ pc' = "done"
  /\ UNCHANGED <<parameters, reads, portalVersion, path, world>>
  /\ UNCHANGED callVars
  /\ UNCHANGED waitVars
  /\ UNCHANGED walkVars

NextTwoQuery == TwoQueryCall \/ TwoQueryVersionSettled \/ TwoQueryCheckSettled

SpecTwoQuery == InitStatus /\ [][NextTwoQuery]_vars

----------------------------------------------------------------------------
(* waitForNextL2Output *)

\* Math.min(100, Number(gameCount))
LatestGamesLimit == 100

Min(a, b) == IF a < b THEN a ELSE b
Max(a, b) == IF a > b THEN a ELSE b

\* (mutant) the start index without Math.max(0, ...)
findLatestGamesArgs_noClamp(count) ==
  [start |-> count - 1, count |-> Min(LatestGamesLimit, count)]

\* the arguments of findLatestGames after gameType
findLatestGamesArgs(count) ==
  [start |-> Max(0, count - 1), count |-> Min(LatestGamesLimit, count)]

\* A game of the batch: whether its extraData decodes, and the block number
\* it decodes to
Games ==
  [ok : {TRUE}, blockNumber : 0..MaxBlock] \cup {[ok |-> FALSE, blockNumber |-> 0]}

SeqsUpTo(S, n) == UNION { [1..k -> S] : k \in 0..n }

\* game counts: the small ones, and those around the limit of 100
GameCounts ==
  0..MaxGames \cup (LatestGamesLimit - 1)..(LatestGamesLimit + 1)

GameCountOutcomes ==
  { Ok(BigIntVal(c)) : c \in GameCounts } \cup { Fail(CallError("gameCount")) }

RespectedGameTypeOutcomes ==
  { Ok(NumVal(0)), Fail(CallError("respectedGameType")) }

\* findLatestGames returns at most the number of games asked for
FindLatestGamesOutcomes(req) ==
  { [ok |-> TRUE, games |-> g, err |-> NoError] :
      g \in SeqsUpTo(Games, Min(req.count, MaxBatch)) }
    \cup { [ok |-> FALSE, games |-> <<>>, err |-> CallError("findLatestGames")] }

TimeToNextL2OutputOutcomes ==
  { Ok(NumVal(s)) : s \in 0..MaxSeconds }
    \cup { Fail(CallError("getTimeToNextL2Output")) }

\* decodeAbiParameters throws on malformed extraData
DecodeError(i) == Err("AbiDecodingDataSizeTooSmallError", FALSE, "", "decodeAbiParameters")

\* { ...game, l2BlockNumber: blockNumber } for the i-th game of the batch
Match(game, i) ==
  [kind |-> "game", n |-> game.blockNumber, e |-> NoError, index |-> i]

\* The state a tick's callback acts on: poll's flag, the promise, and the
\* number of resolve/reject calls.
TickState == [active |-> active, promise |-> promise, settleCalls |-> settleCalls]

\* unpoll(): clears poll's flag
unpoll(st) == [st EXCEPT !.active = FALSE]

\* resolve(v) / reject(e) of `new Promise`: only the first call settles it
resolve(st, v) ==
  [st EXCEPT !.promise = IF @.status = "pending" THEN Fulfilled(v) ELSE @,
             !.settleCalls = @ + 1]
reject(st, e) ==
  [st EXCEPT !.promise = IF @.status = "pending" THEN Rejected(e) ELSE @,
             !.settleCalls = @ + 1]

\* catch (e) { unpoll(); reject(e) } of the dispute-game block
catchGames(st, e) == reject(unpoll(st), e)

\* (mutant) the legacy block rejecting without unpoll()
legacyBlock_rejectWithoutUnpoll(st, o) ==
  IF o.ok THEN resolve(unpoll(st), o.value)
  ELSE IF ~o.err.revert THEN reject(st, o.err)
  ELSE st

\* the legacy block of the callback, once getL2Output has settled
legacyBlock(st, o) ==
  IF o.ok THEN resolve(unpoll(st), o.value)
  ELSE IF ~o.err.revert THEN reject(unpoll(st), o.err)
  ELSE st

\* (mutant) a game that does not decode is skipped
RECURSIVE scanGames_skipMalformed(_, _, _, _)
scanGames_skipMalformed(games, i, target, st) ==
  IF i > Len(games) THEN st
  ELSE IF ~games[i].ok THEN scanGames_skipMalformed(games, i + 1, target, st)
  ELSE IF games[i].blockNumber > target
    THEN scanGames_skipMalformed(games, i + 1, target,
                                 resolve(unpoll(st), Match(games[i], i)))
  ELSE scanGames_skipMalformed(games, i + 1, target, st)

\* for (const game of latestGames) { ... }, from the i-th game on
RECURSIVE scanGames(_, _, _, _)
scanGames(games, i, target, st) ==
  IF i > Len(games) THEN st
  ELSE IF ~games[i].ok THEN catchGames(st, DecodeError(i))
  ELSE IF games[i].blockNumber > target
    THEN scanGames(games, i + 1, target, resolve(unpoll(st), Match(games[i], i)))
  ELSE scanGames(games, i + 1, target, st)

SetTickState(st) ==
  /\ active' = st.active
  /\ promise' = st.promise
  /\ settleCalls' = st.settleCalls

\* (mutant) the initial wait given in seconds instead of milliseconds
StartPoll_inSeconds(s) ==
  /\ initialWaitTime' = s
  /\ elapsed' = 0
  /\ active' = TRUE
  /\ wpc' = "idle"

\* poll(fn, { interval, initialWaitTime: async () => seconds * 1000 }) is started
StartPoll(s) ==
  /\ initialWaitTime' = s * 1000
  /\ elapsed' = 0
  /\ active' = TRUE
  /\ wpc' = "idle"

\* const isLegacy = version.major < 3
IsLegacyMajor(major) == major < 3

\* waitForNextL2Output is called: await getPortalVersion
WaitCall ==
  /\ wpc = "start"
  /\ wreads' = Append(wreads, "getPortalVersion")
  /\ wpc' = "awaitVersion"
  /\ UNCHANGED <<l2BlockNumber, isLegacy, initialWaitTime, elapsed, active,
                 promise, ticks, settleCalls, gameCount, request, latestGames,
                 seconds, l2Output, raised>>
  /\ UNCHANGED statusVars
  /\ UNCHANGED walkVars

\* the version read settles: isLegacy, then seconds
WaitVersionSettled ==
  /\ wpc = "awaitVersion"
  /\ \E v \in PortalVersionOutcomes :
       IF ~v.ok
         THEN /\ promise' = Rejected(v.err)
              /\ wpc' = "done"
              /\ UNCHANGED <<isLegacy, initialWaitTime, elapsed, active, wreads,
                             seconds>>
         ELSE /\ isLegacy' = IsLegacyMajor(v.value.n)
              /\ IF isLegacy'
                   THEN /\ wreads' = Append(wreads, "getTimeToNextL2Output")
                        /\ wpc' = "awaitTimeToNext"
                        /\ UNCHANGED <<initialWaitTime, elapsed, active, seconds>>
                   ELSE /\ seconds' = 0
                        /\ StartPoll(seconds')
                        /\ UNCHANGED wreads
              /\ UNCHANGED promise
  /\ UNCHANGED <<l2BlockNumber, ticks, settleCalls, gameCount, request,
                 latestGames, l2Output, raised>>
  /\ UNCHANGED statusVars
  /\ UNCHANGED walkVars

\* getTimeToNextL2Output settles (legacy only)
TimeToNextSettled ==
  /\ wpc = "awaitTimeToNext"
  /\ \E t \in TimeToNextL2OutputOutcomes :
       IF t.ok
         THEN /\ seconds' = t.value.n
              /\ StartPoll(seconds')
              /\ UNCHANGED promise
         ELSE /\ promise' = Rejected(t.err)
              /\ wpc' = "done"
              /\ UNCHANGED <<initialWaitTime, elapsed, active, seconds>>
  /\ UNCHANGED <<l2BlockNumber, isLegacy, ticks, settleCalls, wreads, gameCount,
                 request, latestGames, l2Output, raised>>
  /\ UNCHANGED statusVars
  /\ UNCHANGED walkVars

\* poll: time passes during the initial wait
InitialWait ==
  /\ wpc = "idle"
  /\ ticks = 0
  /\ elapsed < initialWaitTime
  /\ elapsed' = elapsed + 1000
  /\ UNCHANGED <<wpc, l2BlockNumber, isLegacy, initialWaitTime, active, promise,
                 ticks, settleCalls, wreads, gameCount, request, latestGames,
                 seconds, l2Output, raised>>
  /\ UNCHANGED statusVars
  /\ UNCHANGED walkVars

\* poll: a tick may begin when the initial wait is over, no tick is running
\* and the loop has not been cancelled
pollMayTick == wpc = "idle" /\ active /\ elapsed >= initialWaitTime

\* poll calls the callback, which runs up to its first await; n is the new
\* value of the tick counter
TickStart(n) ==
  /\ pollMayTick
  /\ ticks' = n
  /\ IF isLegacy
       THEN /\ wreads' = <<"getL2Output">>
            /\ wpc' = "getL2Output"
       ELSE /\ wreads' = <<"gameCount">>
            /\ wpc' = "gameCount"
  /\ gameCount' = 0
  /\ request' = NoRequest
  /\ latestGames' = <<>>
  /\ l2Output' = NoOutcome
  /\ raised' = NoError
  /\ UNCHANGED <<l2BlockNumber, isLegacy, initialWaitTime, elapsed, active,
                 promise, settleCalls, seconds>>
  /\ UNCHANGED statusVars
  /\ UNCHANGED walkVars

\* a tick begins; ticks are counted up to MaxTicks
TickBegin == ticks < MaxTicks /\ TickStart(ticks + 1)

\* a tick beyond the counted ones begins: the counter stays at MaxTicks
TickBeginAgain == ticks = MaxTicks /\ TickStart(ticks)

\* legacy: getL2Output settles; the callback goes on to the gameCount read
TickL2Output ==
  /\ wpc = "getL2Output"
  /\ \E o \in OutputOutcomes :
       /\ l2Output' = o
       /\ SetTickState(legacyBlock(TickState, o))
  /\ wreads' = Append(wreads, "gameCount")
  /\ wpc' = "gameCount"
  /\ UNCHANGED <<l2BlockNumber, isLegacy, initialWaitTime, elapsed, ticks,
                 gameCount, request, latestGames, seconds, raised>>
  /\ UNCHANGED statusVars
  /\ UNCHANGED walkVars

\* the gameCount read settles
TickGameCount ==
  /\ wpc = "gameCount"
  /\ \E c \in GameCountOutcomes :
       IF c.ok
         THEN /\ gameCount' = c.value.n
              /\ wreads' = Append(wreads, "respectedGameType")
              /\ wpc' = "respectedGameType"
              /\ UNCHANGED <<active, promise, settleCalls, raised>>
         ELSE /\ raised' = c.err
              /\ SetTickState(catchGames(TickState, c.err))
              /\ wpc' = "idle"
              /\ UNCHANGED <<gameCount, wreads>>
  /\ UNCHANGED <<l2BlockNumber, isLegacy, initialWaitTime, elapsed, ticks,
                 request, latestGames, seconds, l2Output>>
  /\ UNCHANGED statusVars
  /\ UNCHANGED walkVars

\* the respectedGameType read settles; findLatestGames is called
TickGameType ==
  /\ wpc = "respectedGameType"
  /\ \E t \in RespectedGameTypeOutcomes :
       IF t.ok
         THEN /\ request' = findLatestGamesArgs(gameCount)
              /\ wreads' = Append(wreads, "findLatestGames")
              /\ wpc' = "findLatestGames"
              /\ UNCHANGED <<active, promise, settleCalls, raised>>
         ELSE /\ raised' = t.err
              /\ SetTickState(catchGames(TickState, t.err))
              /\ wpc' = "idle"
              /\ UNCHANGED <<request, wreads>>
  /\ UNCHANGED <<l2BlockNumber, isLegacy, initialWaitTime, elapsed, ticks,
                 gameCount, latestGames, seconds, l2Output>>
  /\ UNCHANGED statusVars
  /\ UNCHANGED walkVars

\* findLatestGames settles; the batch is scanned; the callback returns
TickLatestGames ==
  /\ wpc = "findLatestGames"
  /\ \E g \in FindLatestGamesOutcomes(request) :
       IF g.ok
         THEN /\ latestGames' = g.games
              /\ SetTickState(scanGames(g.games, 1, l2BlockNumber, TickState))
              /\ UNCHANGED raised
         ELSE /\ raised' = g.err
              /\ SetTickState(catchGames(TickState, g.err))
              /\ UNCHANGED latestGames
  /\ wpc' = "idle"
  /\ UNCHANGED <<l2BlockNumber, isLegacy, initialWaitTime, elapsed, ticks,
                 wreads, gameCount, request, seconds, l2Output>>
  /\ UNCHANGED statusVars
  /\ UNCHANGED walkVars

StatusIdle ==
  /\ pc = "off"
  /\ parameters = [portalVersion |-> [given |-> FALSE, v |-> 0], withdrawals |-> 0]
  /\ reads = <<>>
  /\ portalVersion = 0
  /\ path = "none"
  /\ world = NoWorld
  /\ pending = {}
  /\ results = [i \in 1..4 |-> Unsettled]
  /\ order = <<>>
  /\ result = NoResult
  /\ calls = 0
  /\ firstResult = NoResult
  /\ versionWorld = NoOutcome

InitWait ==
  /\ StatusIdle
  /\ wpc = "start"
  /\ l2BlockNumber \in 0..MaxBlock
  /\ isLegacy = FALSE
  /\ initialWaitTime = 0
  /\ elapsed = 0
  /\ active = FALSE
  /\ promise = Unsettled
  /\ ticks = 0
  /\ settleCalls = 0
  /\ wreads = <<>>
  /\ gameCount = 0
  /\ request = NoRequest
  /\ latestGames = <<>>
  /\ seconds = 0
  /\ l2Output = NoOutcome
  /\ raised = NoError
  /\ WalkIdle

NextWait ==
  \/ WaitCall \/ WaitVersionSettled \/ TimeToNextSettled \/ InitialWait
  \/ TickBegin \/ TickL2Output \/ TickGameCount \/ TickGameType
  \/ TickLatestGames

SpecWait == InitWait /\ [][NextWait]_vars

\* The waiter with no bound on the number of ticks, the timer of poll firing
\* and every read settling
NextWaitLive == NextWait \/ TickBeginAgain

SpecWaitLive == InitWait /\ [][NextWaitLive]_vars /\ WF_vars(NextWaitLive)

----------------------------------------------------------------------------
(* BaseError.walk *)

\* The terminal values of a chain: an error without a cause property, or the
\* value of a cause property that is no object
LastValues(i) ==
  { ChainValue("error", FALSE, i), ChainValue("null", FALSE, 0),
    ChainValue("undefined", FALSE, 0), ChainValue("string", FALSE, 0) }

\* Finite cause chains starting at a BaseError: every value but the last is
\* an error with a cause
Chains ==
  { c \in UNION { [1..k -> UNION { LastValues(i) : i \in 1..MaxChain }
                             \cup { ChainValue("error", TRUE, i) : i \in 1..MaxChain }]
                  : k \in 1..MaxChain } :
      /\ c[1].kind = "error"
      /\ \A i \in 1..Len(c) :
           /\ c[i].kind = "error" => c[i].n = i
           /\ c[i].hasCause <=> i < Len(c) }

\* fn, by the positions of the chain it is true for
Predicates(c) ==
  { [given |-> FALSE, on |-> {}] }
    \cup { [given |-> TRUE, on |-> S] : S \in SUBSET (1..Len(c)) }

\* err && typeof err === 'object' && 'cause' in err
HasCause(x) == Truthy(x) /\ TypeOf(x) = "object" /\ x.hasCause

\* (mutant) the predicate is tried after the causes: the innermost match
RECURSIVE walk_causeFirst(_, _, _)
walk_causeFirst(c, i, f) ==
  LET deeper == IF HasCause(c[i]) THEN walk_causeFirst(c, i + 1, f)
                ELSE IF f.given THEN NullValue ELSE c[i]
  IN  IF ~f.given THEN deeper
      ELSE IF deeper # NullValue THEN deeper
      ELSE IF i \in f.on THEN c[i]
      ELSE NullValue

\* walk(err, fn), err being the i-th value of the chain
RECURSIVE walk(_, _, _)
walk(c, i, f) ==
  IF f.given /\ i \in f.on THEN c[i]
  ELSE IF HasCause(c[i]) THEN walk(c, i + 1, f)
  ELSE IF f.given THEN NullValue ELSE c[i]

\* BaseError.walk(fn): return walk(this, fn)
Walk ==
  /\ walkpc = "start"
  /\ walked' = walk(chain, 1, fn)
  /\ walkpc' = "done"
  /\ UNCHANGED <<chain, fn>>
  /\ UNCHANGED <<statusVars, waitVars>>

InitWalk ==
  /\ StatusIdle
  /\ WaitIdle
  /\ walkpc = "start"
  /\ chain \in Chains
  /\ fn \in Predicates(chain)
  /\ walked = NoValue

NextWalk == Walk

SpecWalk == InitWalk /\ [][NextWalk]_vars

----------------------------------------------------------------------------
(* Properties of getWithdrawalStatus *)

\* the call ended after its four queries were started and settled
QueriesDone == pc = "done" /\ Len(order) = 4

OutputNotProposed ==
  /\ ~world.output.ok
  /\ world.output.err.revert
  /\ world.output.err.arg0 = NotProposedMessage

\* the checkWithdrawal simulation succeeded: no revert, or an allow-listed revert
SimulationSucceeded ==
  \/ world.fourth.ok
  \/ /\ world.fourth.err.revert
     /\ world.fourth.err.message \in finalizedWithdrawalMessages

\* C1: in both paths, when the output query rejects with the revert reason
\* "L2OutputOracle: cannot get output for a block that has not been proposed",
\* the call returns 'waiting-to-prove', whatever the other three queries did.
C1_NotProposedIsWaitingToProve ==
  (QueriesDone /\ OutputNotProposed) => result = Return("waiting-to-prove")

C1_Witness ==
  /\ QueriesDone /\ OutputNotProposed
  /\ path = "v2"
  /\ ~world.proven.ok /\ ~world.finalized.ok /\ ~world.fourth.ok
  /\ result = Return("waiting-to-prove")

\* C2 (as claimed): output, proven and finalized reads succeed and the proven
\* timestamp is 0: the call returns 'ready-to-prove' whatever the fourth query
\* did, also when it rejected.
C2_Original ==
  ( /\ QueriesDone
    /\ world.output.ok /\ world.proven.ok /\ world.finalized.ok
    /\ world.proven.value.n = 0 )
  => result = Return("ready-to-prove")

\* C2 (amended): output, proven and finalized reads succeed and the proven
\* timestamp is 0: the call returns 'ready-to-prove' when the fourth query
\* fulfilled, and throws the fourth query's rejection reason when it rejected.
C2_ReadyToProveUnlessFourthRejected ==
  ( /\ QueriesDone
    /\ world.output.ok /\ world.proven.ok /\ world.finalized.ok
    /\ world.proven.value.n = 0 )
  => result = IF results[4].status = "rejected"
                THEN Throw(world.fourth.err)
                ELSE Return("ready-to-prove")

C2_Witness ==
  /\ QueriesDone
  /\ world.output.ok /\ world.proven.ok /\ world.finalized.ok
  /\ world.proven.value.n = 0
  /\ world.finalized.value = BoolVal(TRUE)
  /\ results[4].status = "fulfilled"
  /\ result = Return("ready-to-prove")

\* C3 (as claimed): all queries succeed and the finalized flag is true: the
\* call returns 'finalized' for every proven record, a timestamp of 0 included.
C3_Original ==
  ( /\ QueriesDone
    /\ \A i \in 1..4 : results[i].status = "fulfilled"
    /\ world.finalized.value = BoolVal(TRUE) )
  => result = Return("finalized")

\* C3 (amended): all queries succeed and the finalized flag is true: the call
\* returns 'finalized' when the proven timestamp is non-zero and
\* 'ready-to-prove' when it is 0.
C3_FinalizedWhenProven ==
  ( /\ QueriesDone
    /\ \A i \in 1..4 : results[i].status = "fulfilled"
    /\ world.finalized.value = BoolVal(TRUE) )
  => result = IF world.proven.value.n = 0
                THEN Return("ready-to-prove")
                ELSE Return("finalized")

C3_Witness ==
  /\ QueriesDone
  /\ path = "v3"
  /\ \A i \in 1..4 : results[i].status = "fulfilled"
  /\ world.finalized.value = BoolVal(TRUE)
  /\ world.proven.value.n > 0
  /\ result = Return("finalized")

\* the v3 case past the proven and finalized checks
V3ProvenNotFinalized ==
  /\ QueriesDone
  /\ path = "v3"
  /\ world.output.ok /\ world.proven.ok /\ world.finalized.ok
  /\ world.proven.value.n # 0
  /\ world.finalized.value = BoolVal(FALSE)

C5_V2SecondsDecide ==
  ( /\ QueriesDone
    /\ path = "v2"
    /\ world.output.ok /\ world.proven.ok /\ world.finalized.ok /\ world.fourth.ok
    /\ world.proven.value.n # 0
    /\ world.finalized.value = BoolVal(FALSE) )
  => result = IF world.fourth.value.n > 0
                THEN Return("waiting-to-finalize")
                ELSE Return("ready-to-finalize")

C5_Witness ==
  /\ QueriesDone
  /\ path = "v2"
  /\ world.output.ok /\ world.proven.ok /\ world.finalized.ok /\ world.fourth.ok
  /\ world.proven.value.n # 0
  /\ world.finalized.value = BoolVal(FALSE)
  /\ world.fourth.value.n = 0
  /\ result = Return("ready-to-finalize")

\* C6: v3, output, proven and finalized succeed, proven timestamp non-zero,
\* finalized false, and checkWithdrawal reverts with a message outside the
\* nine allow-listed ones or fails with a non-revert error: the call throws
\* that very error and returns none of the five statuses.
C6_FailClosed ==
  (V3ProvenNotFinalized /\ ~SimulationSucceeded)
  => /\ result = Throw(world.fourth.err)
     /\ result.kind # "return"
     /\ result.status \notin GetWithdrawalStatusReturnType

C6_Witness ==
  /\ V3ProvenNotFinalized
  /\ world.fourth = Fail(RevertError(UnknownPortalMessage, "checkWithdrawal"))
  /\ result = Throw(RevertError(UnknownPortalMessage, "checkWithdrawal"))

\* C7 (as claimed): when the receipt yields no withdrawal record, the call
\* fails with ReceiptContainsNoWithdrawalsError and no contract read at all,
\* the portal version read included, was issued before.
C7_NoReadBeforeNoWithdrawalsError ==
  (pc = "done" /\ parameters.withdrawals = 0)
  => /\ result = Throw(ReceiptContainsNoWithdrawalsError)
     /\ reads = <<>>

\* the index of the first query whose failure is fatal, 0 when there is none
FirstFatal ==
  LET fatal == { i \in 1..4 :
                   /\ results[i].status = "rejected"
                   /\ ~(i = 1 /\ results[1].reason.revert
                              /\ results[1].reason.arg0 = NotProposedMessage) }
  IN  IF fatal = {} THEN 0 ELSE CHOOSE i \in fatal : \A j \in fatal : i <= j

\* C8: when the call throws because of a failed sub-query, the error is the
\* rejection reason of the first fatally failed query in the order output,
\* proven, finalized, fourth: an output error other than the "not proposed"
\* revert is thrown even if later queries rejected too, and a later query's
\* error is thrown only if every earlier query fulfilled.
C8_FirstFatalIsThrown ==
  (QueriesDone /\ result.kind = "throw")
  => /\ FirstFatal # 0
     /\ result.err = results[FirstFatal].reason
     /\ result.err.from = QueryReads(path)[FirstFatal]
     /\ \A j \in 1..(FirstFatal - 1) : results[j].status = "fulfilled"

C8_Witness ==
  /\ QueriesDone
  /\ world.output = Fail(RevertError(UnknownOracleMessage, "getL2Output"))
  /\ ~world.proven.ok /\ ~world.finalized.ok /\ ~world.fourth.ok
  /\ result = Throw(RevertError(UnknownOracleMessage, "getL2Output"))

\* the array Promise.allSettled yields when the queries settle in order `o`
RECURSIVE SettledInOrder(_, _)
SettledInOrder(o, res) ==
  IF o = <<>> THEN res
  ELSE SettledInOrder(Tail(o),
         allSettledStore(res, Head(o), QuerySettled(path, world, Head(o))))

\* C9: for fixed outcomes of the four queries, the status returned or error
\* thrown is the same for every order in which the queries settle: it is the
\* one obtained when they settle in the order 1, 2, 3, 4.
C9_OrderIndependent ==
  QueriesDone
  => result = Classify(path, SettledInOrder(<<1, 2, 3, 4>>,
                                            [i \in 1..4 |-> Unsettled]))

C9_Witness ==
  /\ QueriesDone
  /\ order = <<4, 3, 2, 1>>
  /\ ~world.proven.ok /\ ~world.fourth.ok /\ world.output.ok
  /\ result = Throw(world.proven.err)

\* C16: getWithdrawalStatusV2 and getWithdrawalStatusV3 start all four
\* queries, and neither return nor throw before all four have settled, even
\* when one of them has already rejected.
C16_WaitsForAllFour ==
  /\ pc = "queries"
       => /\ result = NoResult
          /\ \A i \in 1..4 :
               \E k \in DOMAIN reads : reads[k] = QueryReads(path)[i]
  /\ (pc = "done" /\ path # "none" /\ parameters.withdrawals > 0)
       => /\ pending = {}
          /\ Len(order) = 4
          /\ \A i \in 1..4 : results[i].status # "pending"

C16_Witness ==
  /\ QueriesDone
  /\ results[order[1]].status = "rejected"
  /\ result.kind = "throw"

VersionReads == Cardinality({ i \in DOMAIN reads : reads[i] = "getPortalVersion" })

\* C15: getWithdrawalStatus reads the portal version only when the caller
\* supplied no portalVersion: with portalVersion 2 or 3 there is no version
\* read and the v2 or the v3 path runs; with none there is exactly one version
\* read, whose major selects the path.
C15_VersionReadOnlyWhenNotSupplied ==
  /\ parameters.portalVersion.given => VersionReads = 0
  /\ VersionReads <= 1
  /\ (~parameters.portalVersion.given /\ pc = "queries") => VersionReads = 1
  /\ (pc \in {"queries", "done"} /\ parameters.portalVersion.given)
       => path = (IF parameters.portalVersion.v = 2 THEN "v2" ELSE "v3")
  /\ (pc \in {"queries", "done"} /\ ~parameters.portalVersion.given
        /\ portalVersion # 0)
       => path = (IF portalVersion = 2 THEN "v2" ELSE "v3")

----------------------------------------------------------------------------
(* Properties of waitForNextL2Output *)

TickOver == wpc = "idle" /\ ticks >= 1

\* the tick's getL2Output reverted with the known "not proposed yet" reason
L2OutputNotProposed ==
  l2Output # NoOutcome /\ ~l2Output.ok /\ IsNotProposed(l2Output.err)

\* C11: in the legacy branch, a tick whose getL2Output reverts with the known
\* "not yet proposed" reason neither resolves nor rejects the promise nor
\* cancels the loop, so that a later tick can run, whatever the dispute game
\* factory answers.
C11_KeepsPollingOnNotProposed ==
  (isLegacy /\ TickOver /\ L2OutputNotProposed)
    => /\ promise.status = "pending"
       /\ settleCalls = 0
       /\ active
       /\ pollMayTick

\* C12: in the legacy branch, once the tick's getL2Output has settled: if it
\* failed with anything but the known "not yet proposed" revert the loop is
\* cancelled and the promise is rejected with that error; if it succeeded
\* the loop is cancelled and the promise is fulfilled with that output.
C12_LegacyFailureRejects ==
  (isLegacy /\ l2Output # NoOutcome /\ ~L2OutputNotProposed)
    => /\ ~active
       /\ promise = IF l2Output.ok THEN Fulfilled(l2Output.value)
                    ELSE Rejected(l2Output.err)

\* the games of a batch that decode to a block number >= target
Covering(games, target) ==
  { i \in 1..Len(games) : games[i].ok /\ games[i].blockNumber >= target }

\* the games of a batch whose extraData does not decode
Malformed(games) == { i \in 1..Len(games) : ~games[i].ok }

First(S) == CHOOSE i \in S : \A j \in S : i <= j

\* C13: in the v3 branch, a tick whose batch holds a game that decodes to a
\* block number greater than or equal to the target (and no malformed game
\* before it) cancels the loop and fulfils the promise with the first such
\* game of the batch, carrying its l2BlockNumber.
C13_ResolvesWithFirstCoveringGame ==
  (/\ ~isLegacy
   /\ TickOver
   /\ Covering(latestGames, l2BlockNumber) # {}
   /\ \A j \in Malformed(latestGames) :
        j > First(Covering(latestGames, l2BlockNumber)))
    => /\ ~active
       /\ promise =
            Fulfilled(Match(latestGames[First(Covering(latestGames, l2BlockNumber))],
                            First(Covering(latestGames, l2BlockNumber))))

\* the v3 loop is running and no read or decoding has failed in the tick
V3Polling ==
  /\ ~isLegacy
  /\ wpc \in {"idle", "gameCount", "respectedGameType", "findLatestGames"}
  /\ raised = NoError
  /\ Malformed(latestGames) = {}

\* the tick is over and its batch held no game at or past the target
V3TickWithoutMatch ==
  V3Polling /\ TickOver /\ Covering(latestGames, l2BlockNumber) = {}

\* the batch of every finished tick holds a game at or past the target
V3EveryBatchCovers ==
  V3Polling /\ (TickOver => Covering(latestGames, l2BlockNumber) # {})

\* C18: in the v3 branch, a tick in which no read fails and no game of the
\* batch covers the target is followed by another tick; and if from some tick
\* onward every fetched batch holds a game covering the target, the promise
\* is eventually fulfilled.
C18_V3Liveness ==
  /\ V3TickWithoutMatch ~> (wpc # "idle")
  /\ (<>[]V3EveryBatchCovers) => <>(promise.status = "fulfilled")

\* the error the dispute-game block of the last tick ran into: a failed read,
\* or the first game that does not decode
TickError ==
  IF raised # NoError THEN raised
  ELSE IF Malformed(latestGames) # {} THEN DecodeError(First(Malformed(latestGames)))
  ELSE NoError

\* no game scanned before the error was past the target
NoMatchBeforeError ==
  \A j \in 1..Len(latestGames) :
    (Malformed(latestGames) # {} /\ j < First(Malformed(latestGames)))
      => ~(latestGames[j].blockNumber > l2BlockNumber)

V3TickFailed ==
  ~isLegacy /\ TickOver /\ TickError # NoError /\ NoMatchBeforeError

\* C14: in the v3 branch, on a tick in which no game has matched so far, an
\* error of the gameCount read, the respectedGameType read, the
\* findLatestGames read or the decoding of a game cancels the loop and
\* rejects the promise with that error, and no later tick runs.
C14_V3ErrorRejects ==
  /\ [](V3TickFailed => (~active /\ promise = Rejected(TickError)))
  /\ [][V3TickFailed => ticks' = ticks]_vars

C14_Witness ==
  /\ ~isLegacy
  /\ TickOver
  /\ Len(latestGames) = 2
  /\ latestGames[1].ok /\ latestGames[1].blockNumber <= l2BlockNumber
  /\ ~latestGames[2].ok
  /\ promise = Rejected(DecodeError(2))
  /\ ~active

\* poll has been started
PollStarted ==
  wpc \in {"idle", "getL2Output", "gameCount", "respectedGameType",
           "findLatestGames"}

\* C19: the first tick does not run before the initial wait has elapsed; the
\* initial wait is zero in the v3 branch, where getTimeToNextL2Output is not
\* read at all, and seconds * 1000 milliseconds, with the seconds that
\* getTimeToNextL2Output returned, in the legacy branch.
C19_FirstTickAfterInitialWait ==
  /\ ticks >= 1 => elapsed >= initialWaitTime
  /\ PollStarted => initialWaitTime = seconds * 1000
  /\ (PollStarted /\ ~isLegacy) => (seconds = 0 /\ initialWaitTime = 0)
  /\ (ticks = 0 /\ ~isLegacy)
       => \A k \in DOMAIN wreads : wreads[k] # "getTimeToNextL2Output"
  /\ (ticks = 0 /\ PollStarted /\ isLegacy)
       => wreads = <<"getPortalVersion", "getTimeToNextL2Output">>

C19_Witness ==
  /\ isLegacy
  /\ ticks = 1
  /\ seconds = 1
  /\ initialWaitTime = 1000
  /\ elapsed = 1000

DisputeGameReads == {"gameCount", "respectedGameType", "findLatestGames"}

\* C24: within a tick, once the tick has cancelled the loop it issues no
\* further contract read and makes no further resolve or reject call: a tick
\* that waits for a read has not cancelled, the promise's resolve and reject
\* are called at most once, and a legacy tick never performs the dispute-game
\* reads.
C24_NothingAfterUnpoll ==
  /\ wpc \in DisputeGameReads => active
  /\ settleCalls <= 1
  /\ isLegacy => \A k \in DOMAIN wreads : wreads[k] \notin DisputeGameReads

\* C25: for every portal major version, getWithdrawalStatus takes the v2 path
\* exactly when waitForNextL2Output takes the legacy branch.
C25_SameBranchChoice ==
  path # "none" => ((path = "v2") <=> IsLegacyMajor(portalVersion))

----------------------------------------------------------------------------
(* Properties of the two-query getWithdrawalStatus *)

\* the two-query call ended after checkWithdrawal settled
TwoQueryDone == pc = "done" /\ order = <<1, 2>>

\* what getWithdrawalStatusV3 yields on the on-chain state w
FourQueryResult(w) ==
  Classify("v3", [i \in 1..4 |-> QuerySettled("v3", w, i)])

\* what the two-query getWithdrawalStatus yields on w, for a portal of the
\* given major version
TwoQueryResult(major, w) ==
  getWithdrawalStatus_classify(Fulfilled(NumVal(major)), Settle(w.fourth))

\* C21: the four-query getWithdrawalStatusV3 and the two-query
\* getWithdrawalStatus have different decision trees: there is on-chain state
\* on which their results differ; in particular, wherever the output is not
\* proposed yet the former returns 'waiting-to-prove' and the latter does not.
C21_ImplementationsDiffer ==
  /\ \E w \in Worlds("v3") : FourQueryResult(w) # TwoQueryResult(3, w)
  /\ (TwoQueryDone /\ portalVersion = 3 /\ OutputNotProposed)
       => /\ FourQueryResult(world) = Return("waiting-to-prove")
          /\ result # FourQueryResult(world)

C21_Witness ==
  /\ TwoQueryDone
  /\ portalVersion = 3
  /\ OutputNotProposed
  /\ world.fourth.ok
  /\ result = Return("ready-to-finalize")
  /\ FourQueryResult(world) = Return("waiting-to-prove")

NotProvenMessage == "OptimismPortal: withdrawal has not been proven yet"
AlreadyFinalizedMessage == "OptimismPortal: withdrawal has already been finalized"

----------------------------------------------------------------------------
(* Properties of BaseError.walk *)

\* C23: over a finite cause chain, walk() without a predicate returns the
\* innermost value of the chain, the first one that has no cause property;
\* walk(fn) returns the outermost value of the chain for which fn is true,
\* and null when fn is true for none.
C23_WalkResult ==
  walkpc = "done"
    => IF ~fn.given
         THEN /\ walked = chain[First({ i \in 1..Len(chain) : ~chain[i].hasCause })]
              /\ walked = chain[Len(chain)]
         ELSE IF fn.on = {} THEN walked = NullValue
         ELSE walked = chain[First(fn.on)]

C23_Witness ==
  /\ walkpc = "done"
  /\ Len(chain) = 3
  /\ fn.given
  /\ fn.on = {2, 3}
  /\ walked = ChainValue("error", TRUE, 2)

====
